---- MODULE Spec2Model ----
(***************************************************************************)
(* whisper-dictation: the push-to-talk daemon (daemon.py) with its         *)
(* recorder (recorder.py), background transcriber (transcriber.py) and     *)
(* paster (paste.py).  The main thread runs DictationDaemon.run: device    *)
(* discovery, then the read_loop that feeds on_key_event.  A signal        *)
(* handler (cleanup) may run on the main thread between any two of its     *)
(* steps.  Every transcribe_async dispatch is one background thread.       *)
(***************************************************************************)
EXTENDS Integers, Sequences, FiniteSets, TLC

(***************************************************************************)
(* Bounds of the model.                                                    *)
(***************************************************************************)
MaxSessions == 2
MaxDevices == 2

(***************************************************************************)
(* evdev codes used by config.py and daemon.py.                            *)
(***************************************************************************)
EV_SYN == 0
EV_KEY == 1
KEY_LEFTCTRL == 29
KEY_A == 30
KEY_B == 48
KEY_COMMA == 51
KEY_DOT == 52
KEY_LEFTMETA == 125
KEY_RIGHTMETA == 126
KEY_RIGHTCTRL == 97
KEY_LEFTALT == 56
KEY_RIGHTALT == 100
KEY_LEFTSHIFT == 42
KEY_RIGHTSHIFT == 54
KEY_SPACE == 57
KEY_SLASH == 53
KEY_SEMICOLON == 39

MIN_AUDIO_SIZE == 10000

None == "None"

\* Config.MODIFIER_MAP
MODIFIER_MAP(mod) ==
    CASE mod = "super" -> <<KEY_LEFTMETA, KEY_RIGHTMETA>>
      [] mod = "ctrl"  -> <<KEY_LEFTCTRL, KEY_RIGHTCTRL>>
      [] mod = "alt"   -> <<KEY_LEFTALT, KEY_RIGHTALT>>
      [] mod = "shift" -> <<KEY_LEFTSHIFT, KEY_RIGHTSHIFT>>
      [] OTHER         -> <<>>

ModifierNames == {"super", "ctrl", "alt", "shift"}

\* Config.KEY_MAP with the .get default of get_hotkey_key
KEY_MAP(name) ==
    CASE name = "period" -> KEY_DOT
      [] name = "comma"  -> KEY_COMMA
      [] name = "space"  -> KEY_SPACE
      [] name = "slash"  -> KEY_SLASH
      [] name = "semicolon" -> KEY_SEMICOLON
      [] OTHER           -> KEY_DOT

\* The hotkey sections of the configurations the daemon is run with:
\* DEFAULT_CONFIG, and a user file with two modifiers, one of them unknown.
DEFAULT_CONFIG ==
    [modifiers |-> <<"super">>, key |-> "period",
     remove_filler_words |-> TRUE, auto_capitalize |-> TRUE]

Configs ==
    {DEFAULT_CONFIG,
     [modifiers |-> <<"super", "hyper", "ctrl">>, key |-> "dot",
      remove_filler_words |-> FALSE, auto_capitalize |-> TRUE]}

RECURSIVE extend_all(_)
extend_all(mods) ==
    IF mods = <<>> THEN <<>>
    ELSE (IF Head(mods) \in ModifierNames THEN MODIFIER_MAP(Head(mods)) ELSE <<>>)
         \o extend_all(Tail(mods))

\* Config.get_hotkey_modifiers: the list of keycodes of the known modifiers
get_hotkey_modifiers(cfg) == extend_all(cfg.modifiers)

\* Config.get_hotkey_key
get_hotkey_key(cfg) == KEY_MAP(cfg.key)

(***************************************************************************)
(* Device discovery (daemon.py, find_keyboard_device).  A device name is   *)
(* a sequence of words; a pattern is a sequence of lower-case words and    *)
(* occurs in a name when it matches consecutive words of the lowered name. *)
(***************************************************************************)
\* str.lower on the words that occur in the device names of the model
Lower(w) ==
    CASE w = "Keyboard" -> "keyboard"
      [] w = "KEYBOARD" -> "keyboard"
      [] w = "Virtual"  -> "virtual"
      [] w = "Power"    -> "power"
      [] w = "Button"   -> "button"
      [] w = "AT"       -> "at"
      [] w = "USB"      -> "usb"
      [] w = "Receiver" -> "receiver"
      [] OTHER          -> w

\* pattern in name.lower()
name_contains(name, pattern) ==
    \E i \in 1..Len(name) :
        /\ i + Len(pattern) - 1 <= Len(name)
        /\ \A j \in 1..Len(pattern) : Lower(name[i + j - 1]) = pattern[j]

virtual_patterns ==
    << <<"virtual">>, <<"ydotoold">>, <<"xdotool">>, <<"uinput">>,
       <<"sleep", "button">>, <<"power", "button">>, <<"lid", "switch">>,
       <<"video", "bus">> >>

_is_virtual_device(device_name) ==
    \E k \in DOMAIN virtual_patterns : name_contains(device_name, virtual_patterns[k])

\* _has_required_keys: <<has_letters, has_modifiers>>
_has_required_keys(capabilities) ==
    IF ~capabilities.has_ev_key THEN <<FALSE, FALSE>>
    ELSE << KEY_A \in capabilities.keys,
            \/ KEY_LEFTMETA \in capabilities.keys
            \/ KEY_RIGHTMETA \in capabilities.keys
            \/ KEY_LEFTCTRL \in capabilities.keys >>

\* The for loop of _select_best_keyboard: the first candidate whose lowered
\* name contains "keyboard", as <<device>>, or <<>> when the loop falls through.
RECURSIVE first_keyboard(_)
first_keyboard(candidates) ==
    IF candidates = <<>> THEN <<>>
    ELSE IF name_contains(Head(candidates).name, <<"keyboard">>)
         THEN <<Head(candidates)>>
         ELSE first_keyboard(Tail(candidates))

\* Mutant of _select_best_keyboard: the loop that prefers a name containing
\* "keyboard" is missing.
_select_best_keyboard_first_candidate(candidates) ==
    IF candidates = <<>> THEN <<>> ELSE <<candidates[1]>>

\* _select_best_keyboard: <<device>>, or <<>> for Python's None
_select_best_keyboard(candidates) ==
    IF candidates = <<>> THEN <<>>
    ELSE IF first_keyboard(candidates) # <<>> THEN first_keyboard(candidates)
    ELSE <<candidates[1]>>

\* the loop body of find_keyboard_device: is this device appended to candidates
is_candidate(device) ==
    /\ device.openable
    /\ _has_required_keys(device.capabilities)[1]
    /\ _has_required_keys(device.capabilities)[2]
    /\ ~_is_virtual_device(device.name)

RECURSIVE collect_candidates(_)
collect_candidates(devices) ==
    IF devices = <<>> THEN <<>>
    ELSE (IF is_candidate(Head(devices)) THEN <<Head(devices)>> ELSE <<>>)
         \o collect_candidates(Tail(devices))

find_keyboard_device(devices) ==
    IF collect_candidates(devices) = <<>> THEN <<>>
    ELSE _select_best_keyboard(collect_candidates(devices))

Device(name, openable, has_ev_key, keys) ==
    [name |-> name, openable |-> openable,
     capabilities |-> [has_ev_key |-> has_ev_key, keys |-> keys]]

\* what list_devices() reports on the machines the daemon is started on
DeviceLists ==
    { <<>>,
      << Device(<<"Power", "Button">>, TRUE, TRUE, {KEY_A, KEY_LEFTCTRL}) >>,
      << Device(<<"USB", "Receiver">>, FALSE, TRUE, {KEY_A, KEY_LEFTMETA}),
         Device(<<"AT", "Keyboard">>, TRUE, TRUE, {KEY_A, KEY_DOT, KEY_LEFTMETA, KEY_LEFTCTRL}) >> }

(***************************************************************************)
(* The state of the daemon.                                                *)
(***************************************************************************)
VARIABLES
    config,          \* DictationDaemon.config: the hotkey section
    devices,         \* the input devices list_devices() reports, in order
    last_down,       \* history: codes whose latest down/up key event was a down
    main_pc,         \* position of the main thread in run()
    exit_code,       \* status passed to sys.exit, -1 while the process lives
    keyboard_device, \* DictationDaemon.keyboard_device, <<>> for None
    keys_pressed,    \* DictationDaemon.keys_pressed
    is_recording,    \* DictationDaemon.is_recording
    process,         \* AudioRecorder.process is not None
    captures,        \* number of ffmpeg capture processes alive
    audio_file,      \* /tmp/whisper-dictation/recording.wav
    nsess,           \* number of sessions begun (effective start_recording)
    ndeact,          \* number of effective stop_recording_and_transcribe
    sessions         \* per session: what happened to it

vars == <<config, devices, last_down, main_pc, exit_code, keyboard_device, keys_pressed, is_recording,
          process, captures, audio_file, nsess, ndeact, sessions>>

Sessions == 1..MaxSessions

\* the key codes the keyboard of the model sends
Codes == {KEY_LEFTMETA, KEY_RIGHTCTRL, KEY_DOT, KEY_A}

\* evdev events: key events with value 1 (down), 0 (up), 2 (autorepeat),
\* and events of another type
Events ==
    [type : {EV_KEY}, code : Codes, value : {0, 1, 2}]
    \cup [type : {EV_SYN}, code : {KEY_DOT}, value : {0, 1}]

\* sizes in bytes recording.wav may have when the capture process has exited
FileSizes == {0, MIN_AUDIO_SIZE - 1, MIN_AUDIO_SIZE}

NoFile == [exists |-> FALSE, size |-> 0, owner |-> 0]

\* a recording a previous run of the daemon left behind
StaleFile == [exists |-> TRUE, size |-> MIN_AUDIO_SIZE, owner |-> 0]

NewSession ==
    [stage |-> "idle",     \* idle, recording, noaudio, transcribing, pasting, done
     handle |-> NoFile,    \* the file recorder.stop() returned, NoFile for None
     cause |-> "none",     \* what the whisper-cli call of this dispatch did
     text |-> None,        \* the text passed to on_complete
     paste |-> "none",     \* none, ok, failed: how paster.paste ended
     n_complete |-> 0,     \* calls of on_transcription_complete
     n_error |-> 0,        \* calls of on_transcription_error
     pasted |-> <<>>,      \* texts typed by ydotool
     ui |-> <<>>]          \* notifications of this session, in order

Init ==
    /\ config \in Configs
    /\ devices \in DeviceLists
    /\ last_down = {}
    /\ main_pc = "startup"
    /\ exit_code = -1
    /\ keyboard_device = <<>>
    /\ keys_pressed = {}
    /\ is_recording = FALSE
    /\ process = FALSE
    /\ captures = 0
    /\ audio_file \in {NoFile, StaleFile}
    /\ nsess = 0
    /\ ndeact = 0
    /\ sessions = [s \in Sessions |-> NewSession]

(***************************************************************************)
(* ui.py: every show_* call sends one notification; the model keeps them   *)
(* per session.                                                            *)
(***************************************************************************)
Note(op, msg, detail) == [op |-> op, msg |-> msg, detail |-> detail]

show_recording == Note("show_recording", "Recording", "")
show_transcribing == Note("show_transcribing", "Transcribing", "")
show_success(text) == Note("show_success", text, "")
show_error(message, detail) == Note("show_error", message, detail)

(***************************************************************************)
(* on_key_event (daemon.py 183-215)                                        *)
(***************************************************************************)
\* Mutant of _track_key_state: an autorepeat (value 2) counts as a down.
_track_key_state_repeat_is_down(keys, event) ==
    IF event.value # 0 THEN keys \cup {event.code}
    ELSE keys \ {event.code}

\* _track_key_state
_track_key_state(keys, event) ==
    IF event.value = 1 THEN keys \cup {event.code}
    ELSE IF event.value = 0 THEN keys \ {event.code}
    ELSE keys

\* Mutant of has_modifiers: tests that modifiers are configured, not that one
\* of them is held.
has_modifiers_configured(cfg, keys) == get_hotkey_modifiers(cfg) # <<>>

\* Mutant of has_modifiers: every configured modifier name must have one of
\* its codes held (all-of instead of any-of).
has_modifiers_all_names(cfg, keys) ==
    \A i \in DOMAIN cfg.modifiers :
        cfg.modifiers[i] \in ModifierNames
        => \E j \in DOMAIN MODIFIER_MAP(cfg.modifiers[i]) :
              MODIFIER_MAP(cfg.modifiers[i])[j] \in keys

\* has_modifiers = any(mod in self.keys_pressed for mod in hotkey_modifiers)
has_modifiers(cfg, keys) ==
    \E i \in DOMAIN get_hotkey_modifiers(cfg) : get_hotkey_modifiers(cfg)[i] \in keys

\* the condition of "Handle hotkey press", on the updated key state
hotkey_press(cfg, keys, event, recording) ==
    /\ has_modifiers(cfg, keys)
    /\ event.code = get_hotkey_key(cfg)
    /\ event.value = 1
    /\ ~recording

\* Mutant of hotkey_release: the release branch also asks for a held
\* modifier, as the press branch does.
hotkey_release_needs_modifier(cfg, event, recording) ==
    /\ has_modifiers(cfg, keys_pressed')
    /\ event.code = get_hotkey_key(cfg)
    /\ event.value = 0
    /\ recording

\* Mutant of hotkey_release: the release of a configured modifier also ends
\* the recording.
hotkey_release_any_hotkey_code(cfg, event, recording) ==
    /\ \/ event.code = get_hotkey_key(cfg)
       \/ \E i \in DOMAIN get_hotkey_modifiers(cfg) :
             event.code = get_hotkey_modifiers(cfg)[i]
    /\ event.value = 0
    /\ recording

\* the condition of "Handle hotkey release"
hotkey_release(cfg, event, recording) ==
    /\ event.code = get_hotkey_key(cfg)
    /\ event.value = 0
    /\ recording

\* Mutant of StartRecordingEnter: the test "if self.is_recording: return" is
\* missing.
StartRecordingEnter_no_guard ==
    /\ is_recording' = TRUE
    /\ nsess' = nsess + 1
    /\ sessions' = [sessions EXCEPT ![nsess + 1] =
           [@ EXCEPT !.stage = "recording", !.ui = Append(@, show_recording)]]
    /\ main_pc' = "recorder_start"

\* Mutant of StopRecordingEnter: the test "if not self.is_recording: return"
\* is missing.
StopRecordingEnter_no_guard ==
    /\ is_recording' = FALSE
    /\ ndeact' = ndeact + 1
    /\ main_pc' = "recorder_stop"

\* Mutant of StartRecordingEnter: self.is_recording = True is missing.
StartRecordingEnter_flag_not_set ==
    /\ UNCHANGED is_recording
    /\ nsess' = nsess + 1
    /\ sessions' = [sessions EXCEPT ![nsess + 1] =
           [@ EXCEPT !.stage = "recording", !.ui = Append(@, show_recording)]]
    /\ main_pc' = "recorder_start"

(***************************************************************************)
(* start_recording, up to the call of recorder.start() (daemon.py 113-122) *)
(***************************************************************************)
StartRecordingEnter ==
    IF is_recording
    THEN UNCHANGED <<main_pc, is_recording, nsess, sessions>>
    ELSE /\ is_recording' = TRUE
         /\ nsess' = nsess + 1
         /\ sessions' = [sessions EXCEPT ![nsess + 1] =
                [@ EXCEPT !.stage = "recording", !.ui = Append(@, show_recording)]]
         /\ main_pc' = "recorder_start"

(***************************************************************************)
(* stop_recording_and_transcribe, up to the call of recorder.stop()        *)
(* (daemon.py 127-133)                                                     *)
(***************************************************************************)
StopRecordingEnter ==
    IF ~is_recording
    THEN UNCHANGED <<main_pc, is_recording, ndeact>>
    ELSE /\ is_recording' = FALSE
         /\ ndeact' = ndeact + 1
         /\ main_pc' = "recorder_stop"

\* History of the key events handed to on_key_event: the codes whose most
\* recent event with value 1 or 0 had value 1.
LatestDown(last, event) ==
    CASE event.value = 1 -> last \cup {event.code}
      [] event.value = 0 -> last \ {event.code}
      [] OTHER           -> last

\* One event of read_loop handed to on_key_event.  A down-event reaches only
\* the press branch and an up-event only the release branch, so the handler
\* enters at most one of start_recording and stop_recording_and_transcribe.
OnKeyEvent(event) ==
    /\ main_pc = "loop"
    /\ IF event.type # EV_KEY
       THEN UNCHANGED vars
       ELSE LET keys == _track_key_state(keys_pressed, event) IN
            /\ keys_pressed' = keys
            /\ IF hotkey_press(config, keys, event, is_recording)
               THEN /\ nsess < MaxSessions
                    /\ StartRecordingEnter
                    /\ UNCHANGED ndeact
               ELSE IF hotkey_release(config, event, is_recording)
               THEN /\ StopRecordingEnter
                    /\ UNCHANGED <<nsess, sessions>>
               ELSE UNCHANGED <<main_pc, is_recording, nsess, ndeact, sessions>>
            /\ last_down' = LatestDown(last_down, event)
            /\ UNCHANGED <<config, devices, exit_code, keyboard_device, process, captures,
                           audio_file>>

(***************************************************************************)
(* cleanup (daemon.py 229-234): the signal handler, also called by run()   *)
(* when the event loop raises.  recorder.stop() runs only when             *)
(* is_recording is set, and returns at once when no process handle is held.*)
(***************************************************************************)
Cleanup ==
    /\ IF is_recording /\ process
       THEN /\ captures' = captures - 1
            /\ process' = FALSE
       ELSE UNCHANGED <<captures, process>>
    /\ main_pc' = "exited"
    /\ exit_code' = 0

(***************************************************************************)
(* AudioRecorder.start (recorder.py 22-54), called at daemon.py 125        *)
(***************************************************************************)
\* unlink of the old recording, then Popen: ffmpeg is running, or Popen
\* raised.  The exception leaves on_key_event and reaches "except Exception"
\* of run(), which calls cleanup.
RecorderStart ==
    /\ main_pc = "recorder_start"
    /\ audio_file' = NoFile
    /\ \E launched \in BOOLEAN :
        IF launched
        THEN /\ captures' = captures + 1
             /\ main_pc' = "recorder_spawned"
             /\ UNCHANGED <<process, exit_code, sessions>>
        ELSE /\ sessions' = [sessions EXCEPT ![nsess].stage = "start_failed"]
             /\ Cleanup
    /\ UNCHANGED <<config, devices, last_down, keyboard_device, keys_pressed, is_recording, nsess, ndeact>>

\* self.process = <the Popen object>; start() and start_recording return
RecorderStored ==
    /\ main_pc = "recorder_spawned"
    /\ process' = TRUE
    /\ main_pc' = "loop"
    /\ UNCHANGED <<config, devices, last_down, exit_code, keyboard_device, keys_pressed, is_recording,
                   captures, audio_file, nsess, ndeact, sessions>>

(***************************************************************************)
(* AudioRecorder.stop (recorder.py 56-87) and the rest of                  *)
(* stop_recording_and_transcribe (daemon.py 136-163)                       *)
(***************************************************************************)
\* the value stop() returns once the process is gone: the file when it
\* exists and is not empty, else None
stop_result(file) == IF file.exists /\ file.size > 0 THEN file ELSE NoFile

\* Mutant of audio_ok: the size test is missing.
audio_ok_no_size_test(handle, disk) == ~ (handle = NoFile \/ ~disk.exists)

\* the negation of the condition at daemon.py 142
audio_ok(handle, disk) ==
    ~ (handle = NoFile \/ ~disk.exists \/ disk.size < MIN_AUDIO_SIZE)

\* Mutant of FinishStop: transcribe_async joins the thread it has started,
\* so the handler returns only when the continuation has run.
FinishStop_joins_thread(handle, disk) ==
    /\ sessions' = [sessions EXCEPT ![nsess] =
          IF audio_ok(handle, disk)
          THEN [@ EXCEPT !.stage = "transcribing", !.handle = handle,
                         !.ui = Append(@, show_transcribing)]
          ELSE [@ EXCEPT !.stage = "noaudio", !.handle = handle,
                         !.ui = @ \o <<show_transcribing,
                                       show_error("No audio recorded", "")>>]]
    /\ main_pc' = IF audio_ok(handle, disk) THEN "thread_join" ELSE "loop"

\* daemon.py 139-163 for the session being stopped
FinishStop(handle, disk) ==
    /\ sessions' = [sessions EXCEPT ![nsess] =
          IF audio_ok(handle, disk)
          THEN [@ EXCEPT !.stage = "transcribing", !.handle = handle,
                         !.ui = Append(@, show_transcribing)]
          ELSE [@ EXCEPT !.stage = "noaudio", !.handle = handle,
                         !.ui = @ \o <<show_transcribing,
                                       show_error("No audio recorded", "")>>]]
    /\ main_pc' = "loop"

\* stop() up to process.terminate(); without a process it returns None
RecorderStopTerminate ==
    /\ main_pc = "recorder_stop"
    /\ IF ~process
       THEN FinishStop(NoFile, audio_file)
       ELSE /\ main_pc' = "recorder_wait"
            /\ UNCHANGED sessions
    /\ UNCHANGED <<config, devices, last_down, exit_code, keyboard_device, keys_pressed, is_recording,
                   process, captures, audio_file, nsess, ndeact>>

\* what ffmpeg leaves in recording.wav when it exits
FinalFiles == {NoFile} \cup {[exists |-> TRUE, size |-> sz, owner |-> nsess] : sz \in FileSizes}

\* Mutant of stop_after_terminate: TimeoutExpired of process.wait is not
\* answered by kill; it reaches "except Exception", which returns None with
\* the handle still set and ffmpeg still running.
stop_after_terminate_no_kill(exited_in_time, file) ==
    IF exited_in_time
    THEN [process |-> FALSE, gone |-> TRUE, result |-> stop_result(file)]
    ELSE [process |-> TRUE, gone |-> FALSE, result |-> NoFile]

\* Mutant of stop_after_terminate: "self.process = None" is missing.
stop_after_terminate_handle_kept(exited_in_time, file) ==
    [process |-> TRUE, gone |-> TRUE, result |-> stop_result(file)]

\* stop() after process.terminate() (recorder.py 68-83): wait(timeout=2),
\* on TimeoutExpired kill and wait; then self.process = None and the file
\* check.  process: the handle stop() leaves; gone: ffmpeg has ended;
\* result: the value returned.
stop_after_terminate(exited_in_time, file) ==
    [process |-> FALSE, gone |-> TRUE, result |-> stop_result(file)]

\* process.wait (with kill after the timeout), self.process = None, the
\* file check, and the rest of stop_recording_and_transcribe
RecorderStopWait ==
    /\ main_pc = "recorder_wait"
    /\ \E exited_in_time \in BOOLEAN, f \in FinalFiles :
        LET r == stop_after_terminate(exited_in_time, f) IN
        /\ captures' = IF r.gone THEN captures - 1 ELSE captures
        /\ process' = r.process
        /\ audio_file' = f
        /\ FinishStop(r.result, f)
    /\ UNCHANGED <<config, devices, last_down, exit_code, keyboard_device, keys_pressed, is_recording,
                   nsess, ndeact>>

(***************************************************************************)
(* WhisperTranscriber (transcriber.py)                                     *)
(***************************************************************************)
\* texts whisper-cli writes to transcription.txt (already stripped)
RawTexts == {"", "um", "hello world"}

\* re.sub of the filler words and of repeated white space, then strip
remove_fillers(text) ==
    CASE text = "um" -> ""
      [] OTHER       -> text

\* text[0].upper() + text[1:]
capitalize(text) ==
    CASE text = "um"          -> "Um"
      [] text = "hello world" -> "Hello world"
      [] OTHER                -> text

\* _post_process
_post_process(cfg, text) ==
    IF text = "" THEN ""
    ELSE LET t1 == IF cfg.remove_filler_words THEN remove_fillers(text) ELSE text
         IN IF cfg.auto_capitalize /\ t1 # "" THEN capitalize(t1) ELSE t1

\* what subprocess.run of whisper-cli does: it exceeds the 60 s timeout, it
\* raises (whisper-cli cannot be executed), or it exits with a return code,
\* having created transcription.txt or not
WhisperRun(kind, returncode, created, raw) ==
    [kind |-> kind, returncode |-> returncode, created |-> created, raw |-> raw]

WhisperRuns ==
    {WhisperRun("timeout", 0, FALSE, ""), WhisperRun("oserror", 0, FALSE, ""),
     WhisperRun("exited", 1, FALSE, ""), WhisperRun("exited", 1, TRUE, "hello world"),
     WhisperRun("exited", 0, FALSE, "")}
    \cup {WhisperRun("exited", 0, TRUE, raw) : raw \in RawTexts}

Returned(text) == [raised |-> FALSE, text |-> text, error |-> ""]
Raised(error) == [raised |-> TRUE, text |-> None, error |-> error]

\* transcribe: the value it returns or the exception it raises
transcribe(cfg, model_exists, r) ==
    IF ~model_exists THEN Raised("Whisper model not found")
    ELSE IF r.kind = "timeout" THEN Returned(None)
    ELSE IF r.kind = "oserror" THEN Returned(None)
    ELSE IF r.returncode # 0 THEN Returned(None)
    ELSE IF ~r.created THEN Returned(None)
    ELSE LET text == _post_process(cfg, r.raw)
         IN Returned(IF text # "" THEN text ELSE None)

\* what the underlying transcription did, for the record of the session
cause_of(model_exists, r) ==
    IF ~model_exists THEN "nomodel"
    ELSE IF r.kind # "exited" THEN r.kind
    ELSE IF r.returncode # 0 THEN "nonzero"
    ELSE IF ~r.created THEN "nofile"
    ELSE IF r.raw = "" THEN "nospeech"
    ELSE "text"

\* on_transcription_error (daemon.py 157-159)
on_transcription_error(rec, error) ==
    [rec EXCEPT !.n_error = @ + 1, !.stage = "done",
                !.ui = Append(@, show_error("Transcription failed", error))]

\* on_transcription_complete (daemon.py 148-155) up to the call of
\* paster.paste, which blocks the thread
on_transcription_complete(rec, text) ==
    IF text # None
    THEN [rec EXCEPT !.n_complete = @ + 1, !.text = text, !.stage = "pasting"]
    ELSE [rec EXCEPT !.n_complete = @ + 1, !.stage = "done",
                     !.ui = Append(@, show_error("No speech detected", ""))]

\* Mutant of run_transcribed: run() has no except clause, so an exception of
\* transcribe ends the thread with nothing shown.
run_transcribed_no_except(rec, res) ==
    IF res.raised THEN [rec EXCEPT !.stage = "done"]
    ELSE on_transcription_complete(rec, res.text)

\* run() of transcribe_async (transcriber.py 98-103): transcribe returns or
\* raises, and the continuation is called
run_transcribed(rec, res) ==
    IF res.raised THEN on_transcription_error(rec, res.error)
    ELSE on_transcription_complete(rec, res.text)

\* run() when paster.paste returns: the rest of on_transcription_complete;
\* when it raises: the except clause of run()
run_pasted(rec, ok) ==
    IF ok
    THEN [rec EXCEPT !.paste = "ok", !.pasted = Append(@, rec.text), !.stage = "done",
                     !.ui = Append(@, show_success(rec.text))]
    ELSE on_transcription_error([rec EXCEPT !.paste = "failed"], "ydotool failed")

\* the background thread of session s: transcribe() ends
TranscribeReturns(s) ==
    /\ main_pc # "exited"
    /\ sessions[s].stage = "transcribing"
    /\ \E model_exists \in BOOLEAN, r \in WhisperRuns :
          sessions' = [sessions EXCEPT ![s] =
              run_transcribed([@ EXCEPT !.cause = cause_of(model_exists, r)],
                              transcribe(config, model_exists, r))]
    /\ UNCHANGED <<config, devices, last_down, main_pc, exit_code, keyboard_device, keys_pressed,
                   is_recording, process, captures, audio_file, nsess, ndeact>>

\* the background thread of session s: paster.paste ends
PasteReturns(s) ==
    /\ main_pc # "exited"
    /\ sessions[s].stage = "pasting"
    /\ \E ok \in BOOLEAN : sessions' = [sessions EXCEPT ![s] = run_pasted(@, ok)]
    /\ UNCHANGED <<config, devices, last_down, main_pc, exit_code, keyboard_device, keys_pressed,
                   is_recording, process, captures, audio_file, nsess, ndeact>>

(***************************************************************************)
(* run (daemon.py 217-253)                                                 *)
(***************************************************************************)
\* find the keyboard; sys.exit(1) without one, else install the handlers
Startup ==
    /\ main_pc = "startup"
    /\ keyboard_device' = find_keyboard_device(devices)
    /\ IF keyboard_device' = <<>>
       THEN main_pc' = "exited" /\ exit_code' = 1
       ELSE main_pc' = "loop" /\ UNCHANGED exit_code
    /\ UNCHANGED <<config, devices, last_down, keys_pressed, is_recording, process, captures, audio_file,
                   nsess, ndeact, sessions>>

\* SIGINT or SIGTERM before signal.signal has installed cleanup (daemon.py
\* 236-237): SIGINT raises KeyboardInterrupt outside the try of run(), and
\* SIGTERM has its default action; the process ends with the status of the
\* signal, 130 or 143.
SignalAtStartup ==
    /\ main_pc = "startup"
    /\ main_pc' = "exited"
    /\ exit_code' \in {130, 143}
    /\ UNCHANGED <<config, devices, last_down, keyboard_device, keys_pressed,
                   is_recording, process, captures, audio_file, nsess, ndeact, sessions>>

\* SIGINT or SIGTERM: the handler runs on the main thread, between any two
\* of its steps
Signal ==
    /\ main_pc \notin {"startup", "exited"}
    /\ Cleanup
    /\ UNCHANGED <<config, devices, last_down, keyboard_device, keys_pressed, is_recording, audio_file,
                   nsess, ndeact, sessions>>

\* read_loop raises (the device is gone): except Exception calls cleanup
ReadLoopError ==
    /\ main_pc = "loop"
    /\ Cleanup
    /\ UNCHANGED <<config, devices, last_down, keyboard_device, keys_pressed, is_recording, audio_file,
                   nsess, ndeact, sessions>>

Next ==
    \/ Startup
    \/ \E event \in Events : OnKeyEvent(event)
    \/ RecorderStart
    \/ RecorderStored
    \/ RecorderStopTerminate
    \/ RecorderStopWait
    \/ \E s \in Sessions : TranscribeReturns(s)
    \/ \E s \in Sessions : PasteReturns(s)
    \/ SignalAtStartup
    \/ Signal
    \/ ReadLoopError

Spec == Init /\ [][Next]_vars

(***************************************************************************)
(* The daemon with its progress guarantees.  recorder.stop() returns:      *)
(* terminate, wait(timeout=2), kill (recorder.py 65-74).  The thread of a  *)
(* dispatch is scheduled; transcribe returns or raises because whisper-cli *)
(* runs under timeout=60 (transcriber.py 42-62); paster.paste returns or   *)
(* raises when "ydotool type" ends (paste.py 41).  Key events and signals  *)
(* are the environment's and carry no fairness.                            *)
(***************************************************************************)
Fairness ==
    /\ WF_vars(RecorderStopTerminate)
    /\ WF_vars(RecorderStopWait)
    /\ \A s \in Sessions : WF_vars(TranscribeReturns(s))
    /\ \A s \in Sessions : WF_vars(PasteReturns(s))

\* the default configuration, on a machine with a keyboard and no stale
\* recording.wav
InitLive ==
    /\ Init
    /\ config = DEFAULT_CONFIG
    /\ find_keyboard_device(devices) # <<>>
    /\ audio_file = NoFile

SpecLive == InitLive /\ [][Next]_vars /\ Fairness

(***************************************************************************)
(* The daemon with start_recording and stop_recording_and_transcribe also  *)
(* called directly, between two events, in the state in which the call has *)
(* nothing to do: on_key_event itself calls them only after testing        *)
(* is_recording (daemon.py 203-215), so their own tests (117, 129) are     *)
(* reached with the flag the other way only by such a call.                *)
(***************************************************************************)
DirectStartRecording ==
    /\ main_pc = "loop"
    /\ is_recording
    /\ nsess < MaxSessions
    /\ StartRecordingEnter
    /\ UNCHANGED <<config, devices, last_down, exit_code, keyboard_device, keys_pressed,
                   process, captures, audio_file, ndeact>>

DirectStopRecording ==
    /\ main_pc = "loop"
    /\ ~is_recording
    /\ StopRecordingEnter
    /\ UNCHANGED <<config, devices, last_down, exit_code, keyboard_device, keys_pressed,
                   process, captures, audio_file, nsess, sessions>>

NextDirect ==
    \/ Next
    \/ DirectStartRecording
    \/ DirectStopRecording

SpecDirect == Init /\ [][NextDirect]_vars

(***************************************************************************)
(* Device discovery alone: run() up to the outcome of find_keyboard_device,*)
(* on every list of at most MaxDevices of the devices below.               *)
(***************************************************************************)
SelectDevices ==
    { Device(<<"AT", "Keyboard">>, TRUE, TRUE, {KEY_A, KEY_B, KEY_DOT, KEY_LEFTMETA, KEY_LEFTCTRL}),
      Device(<<"USB", "KEYBOARD">>, TRUE, TRUE, {KEY_A, KEY_B, KEY_RIGHTMETA}),
      Device(<<"USB", "Receiver">>, TRUE, TRUE, {KEY_A, KEY_B, KEY_LEFTCTRL}),
      Device(<<"AT", "Keyboard">>, FALSE, TRUE, {KEY_A, KEY_B, KEY_LEFTMETA}),
      Device(<<"ydotoold", "Virtual", "Keyboard">>, TRUE, TRUE, {KEY_A, KEY_B, KEY_LEFTMETA}),
      Device(<<"Power", "Button">>, TRUE, TRUE, {KEY_A, KEY_LEFTCTRL}),
      Device(<<"Macro", "Pad">>, TRUE, TRUE, {KEY_B, KEY_LEFTCTRL}),
      Device(<<"Foot", "Pedal">>, TRUE, TRUE, {KEY_LEFTCTRL, KEY_LEFTMETA}),
      Device(<<"Letter", "Pad">>, TRUE, TRUE, {KEY_A, KEY_B, KEY_RIGHTCTRL}),
      Device(<<"USB", "Mouse">>, TRUE, FALSE, {}) }

SelectDeviceLists == UNION {[1..n -> SelectDevices] : n \in 0..MaxDevices}

InitSelect ==
    /\ config = DEFAULT_CONFIG
    /\ devices \in SelectDeviceLists
    /\ last_down = {}
    /\ main_pc = "startup"
    /\ exit_code = -1
    /\ keyboard_device = <<>>
    /\ keys_pressed = {}
    /\ is_recording = FALSE
    /\ process = FALSE
    /\ captures = 0
    /\ audio_file = NoFile
    /\ nsess = 0
    /\ ndeact = 0
    /\ sessions = [s \in Sessions |-> NewSession]

SpecSelect == InitSelect /\ [][Startup]_vars

(***************************************************************************)
(* Properties                                                              *)
(***************************************************************************)
HasNote(ui, note) == \E i \in DOMAIN ui : ui[i] = note

HasError(ui, message) ==
    \E i \in DOMAIN ui : ui[i].op = "show_error" /\ ui[i].msg = message

\* the codes get_hotkey_modifiers lists
ModifierCodes(cfg) ==
    {get_hotkey_modifiers(cfg)[i] : i \in DOMAIN get_hotkey_modifiers(cfg)}

\* the session's transcription was dispatched by transcribe_async
Dispatched(s) == sessions[s].stage \in {"transcribing", "pasting", "done"}

\* stop_recording_and_transcribe has run to its end for the session
Stopped(s) == sessions[s].stage \in {"noaudio", "transcribing", "pasting", "done"}

\* C1: effective start_recording calls (activations) and effective
\* stop_recording_and_transcribe calls (deactivations) strictly alternate,
\* starting with an activation: after every prefix of the event sequence the
\* number of activations is the number of deactivations or one more.
C1_Alternation == ndeact <= nsess /\ nsess <= ndeact + 1

\* two complete activation/deactivation cycles have happened
C1_Witness == nsess = 2 /\ ndeact = 2 /\ main_pc = "loop"

\* C2: every dispatch invokes exactly one of on_complete / on_error: never
\* both, and one of them once the background thread has ended.
C2_ExactlyOneContinuation ==
    \A s \in Sessions :
        /\ sessions[s].n_complete + sessions[s].n_error <= 1
        /\ sessions[s].stage = "done" =>
              sessions[s].n_complete + sessions[s].n_error = 1

\* C3: when the whisper-cli call exceeds its time bound, the thread ends with
\* on_error called once and on_complete not called, the notification it shows
\* is an error other than "No speech detected", and the recording flag is
\* left as it was.
C3_TimeoutReportedByOnError ==
    [][\A s \in Sessions :
          (sessions[s].stage = "transcribing" /\ sessions'[s].stage = "done"
           /\ sessions'[s].cause = "timeout")
          => /\ sessions'[s].n_error = 1
             /\ sessions'[s].n_complete = 0
             /\ sessions'[s].ui[Len(sessions'[s].ui)].op = "show_error"
             /\ ~HasError(sessions'[s].ui, "No speech detected")
             /\ is_recording' = is_recording]_vars

\* C4: a failed transcription (subprocess.run raises, a non-zero return code,
\* no output file) is delivered through on_error alone and shown as
\* "Transcription failed"; "No speech detected" is shown only when whisper-cli
\* ran cleanly.
FailureCauses == {"oserror", "nonzero", "nofile"}

C4_FailuresReportedByOnError ==
    \A s \in Sessions :
        /\ (sessions[s].stage = "done" /\ sessions[s].cause \in FailureCauses)
           => /\ sessions[s].n_error = 1
              /\ sessions[s].n_complete = 0
              /\ HasError(sessions[s].ui, "Transcription failed")
        /\ HasError(sessions[s].ui, "No speech detected")
           => sessions[s].cause \in {"nospeech", "text"}

\* C5: when recorder.start() fails to launch the capture process, the
\* recording flag is rolled back and the failure is shown as a UI error.
C5_StartFailureRolledBack ==
    [][\A s \in Sessions :
          (sessions[s].stage = "recording" /\ sessions'[s].stage = "start_failed")
          => /\ ~is_recording'
             /\ \E i \in DOMAIN sessions'[s].ui : sessions'[s].ui[i].op = "show_error"]_vars

\* C6: no recoverable condition (capture start failure, no audio, a failed,
\* timed-out or speechless transcription, paste failure) ends the process:
\* the step in which a session meets one leaves the daemon running.
C6_RecoverableConditionsKeepRunning ==
    [][\A s \in Sessions :
          (sessions'[s].stage # sessions[s].stage
           /\ sessions'[s].stage \in {"start_failed", "noaudio", "done"})
          => main_pc' # "exited"]_vars

\* C7: when the transcription gave a text and paster.paste failed, the
\* success notification for that text is shown and no "Transcription failed"
\* error is.
C7_PasteFailureKeepsSuccess ==
    \A s \in Sessions :
        (sessions[s].stage = "done" /\ sessions[s].paste = "failed")
        => /\ HasNote(sessions[s].ui, show_success(sessions[s].text))
           /\ ~HasError(sessions[s].ui, "Transcription failed")

\* C8: once the daemon has exited, no capture process it started is running.
C8_NoCaptureAfterExit == main_pc = "exited" => captures = 0

\* C9: a session whose audio handle is absent or smaller than MIN_AUDIO_SIZE
\* ends with "No audio recorded" and is never dispatched; a dispatched
\* session has a handle of at least MIN_AUDIO_SIZE bytes.
InvalidHandle(h) == ~h.exists \/ h.size < MIN_AUDIO_SIZE

C9_SmallAudioNeverDispatched ==
    \A s \in Sessions :
        /\ (Stopped(s) /\ InvalidHandle(sessions[s].handle))
           => /\ sessions[s].stage = "noaudio"
              /\ HasError(sessions[s].ui, "No audio recorded")
              /\ sessions[s].cause = "none"
              /\ sessions[s].n_complete = 0 /\ sessions[s].n_error = 0
        /\ Dispatched(s) => ~InvalidHandle(sessions[s].handle)

\* a session stopped with a file one byte below the threshold
C9_Witness ==
    \E s \in Sessions :
        /\ sessions[s].stage = "noaudio"
        /\ sessions[s].handle.exists
        /\ sessions[s].handle.size = MIN_AUDIO_SIZE - 1

\* C10: a step of on_key_event that starts a recording leaves one of the
\* configured modifier codes in keys_pressed: a trigger down-event with no
\* modifier held after the update never starts one.
C10_NoActivationWithoutModifier ==
    [][nsess' # nsess => ModifierCodes(config) \cap keys_pressed' # {}]_vars

\* after a complete session, whose modifier has been released since, the
\* trigger is down with no modifier held and no recording has started
C10_Witness ==
    /\ nsess = 1 /\ ndeact = 1 /\ main_pc = "loop" /\ ~is_recording
    /\ get_hotkey_key(config) \in keys_pressed
    /\ ModifierCodes(config) \cap keys_pressed = {}

\* C11: while a recording is active and the event loop is reading, every
\* step that leaves the trigger code out of keys_pressed (an up-event of the
\* trigger) clears is_recording and enters stop_recording_and_transcribe,
\* whether or not a modifier code is still in keys_pressed.
C11_TriggerUpStopsRecording ==
    [][(main_pc = "loop" /\ is_recording
            /\ get_hotkey_key(config) \notin keys_pressed')
        => /\ ~is_recording'
           /\ ndeact' = ndeact + 1
           /\ main_pc' = "recorder_stop"]_vars

\* the trigger was released after the modifier: the recording has been
\* stopped with no modifier held
C11_Witness ==
    /\ main_pc = "recorder_stop" /\ ~is_recording /\ ndeact = 1
    /\ get_hotkey_key(config) \notin keys_pressed
    /\ ModifierCodes(config) \cap keys_pressed = {}

\* C12: transcribe_async returns without waiting: the step that dispatches
\* a session puts the main thread back at the event loop while the session
\* is still in flight, and a step of a background thread never moves the
\* main thread.
C12_DispatchDoesNotBlock ==
    [][\A s \in Sessions :
          /\ (sessions[s].stage # "transcribing" /\ sessions'[s].stage = "transcribing")
                => main_pc' = "loop"
          /\ (sessions[s].stage \in {"transcribing", "pasting"}
                 /\ sessions'[s] # sessions[s])
                => main_pc' = main_pc]_vars

\* the second recording has been started, stopped and dispatched while the
\* transcription of the first is still running
C12_Witness ==
    /\ nsess = 2 /\ ndeact = 2 /\ main_pc = "loop"
    /\ sessions[1].stage = "transcribing"
    /\ sessions[2].stage = "transcribing"

\* the positions of the show_success notifications of a session
SuccessNotes(ui) == {i \in DOMAIN ui : ui[i].op = "show_success"}

\* C13: a finished session whose transcription gave a text has had
\* paster.paste called with it and shows show_success(text) exactly once; one
\* whose transcription gave no text has had no paste call, shows no
\* show_success and shows "No speech detected".
C13_PasteThenSuccess ==
    \A s \in Sessions :
        (sessions[s].stage = "done" /\ sessions[s].n_complete = 1)
        => IF sessions[s].text # None
           THEN /\ sessions[s].paste # "none"
                /\ Cardinality(SuccessNotes(sessions[s].ui)) = 1
                /\ HasNote(sessions[s].ui, show_success(sessions[s].text))
                /\ sessions[s].pasted = <<sessions[s].text>>
           ELSE /\ sessions[s].paste = "none"
                /\ sessions[s].pasted = <<>>
                /\ SuccessNotes(sessions[s].ui) = {}
                /\ HasError(sessions[s].ui, "No speech detected")

\* C14: a code is in keys_pressed exactly when the most recent down or up
\* key event for that code was a down; autorepeat events and non-key events
\* are no such event and leave keys_pressed as it was.
C14_KeysPressedIsLatestDown == keys_pressed = last_down

\* the trigger has gone down and up again while the modifier is still down
C14_Witness ==
    /\ main_pc = "loop" /\ nsess = 1 /\ ndeact = 1
    /\ get_hotkey_key(config) \notin keys_pressed
    /\ ModifierCodes(config) \cap keys_pressed # {}

\* C15: start_recording while a recording is active does nothing.  At the
\* event loop with is_recording set, every step that keeps the trigger code
\* in keys_pressed and does not end the process (a repeated down-event of the
\* trigger, any other event, a direct start_recording call, a step of a
\* background thread) leaves is_recording set, starts no session, calls
\* neither show_recording nor recorder.start, and leaves the capture alone.
C15_StartWhileRecordingIsNoOp ==
    [][(main_pc = "loop" /\ is_recording /\ main_pc' # "exited"
            /\ get_hotkey_key(config) \in keys_pressed')
        => /\ is_recording'
           /\ main_pc' = "loop"
           /\ nsess' = nsess
           /\ sessions'[nsess] = sessions[nsess]
           /\ process' = process
           /\ captures' = captures]_vars

\* a recording is running, with its capture process, and the daemon is
\* reading events with the trigger still down
C15_Witness ==
    /\ main_pc = "loop" /\ is_recording /\ process /\ captures = 1
    /\ nsess = 1 /\ nsess < MaxSessions
    /\ sessions[1].ui = <<show_recording>>
    /\ get_hotkey_key(config) \in keys_pressed

\* C16: stopping with nothing started does nothing.  At the event loop with
\* is_recording clear, every step that neither starts a recording nor ends
\* the process (an up-event of the trigger, any other event, a direct
\* stop_recording_and_transcribe call) leaves the main thread at the loop,
\* counts no deactivation, leaves the recorder and recording.wav alone, and
\* changes no session that is not already with a background thread.  And
\* cleanup, which calls recorder.stop() with no process handle after a
\* failed or unfinished start, goes on to sys.exit(0).
C16_StopWithoutStartIsNoOp ==
    [][/\ (main_pc = "loop" /\ ~is_recording
               /\ main_pc' \notin {"recorder_start", "exited"})
           => /\ main_pc' = "loop"
              /\ ~is_recording'
              /\ ndeact' = ndeact
              /\ process' = process
              /\ captures' = captures
              /\ audio_file' = audio_file
              /\ \A s \in Sessions :
                    sessions'[s] # sessions[s]
                    => sessions[s].stage \in {"transcribing", "pasting"}
       /\ (main_pc \notin {"startup", "exited"} /\ main_pc' = "exited"
               /\ is_recording /\ ~process)
           => /\ exit_code' = 0
              /\ ~process'
              /\ captures' = captures]_vars

\* after a complete session, the daemon is reading events with no recording
\* and no capture process
C16_Witness ==
    /\ main_pc = "loop" /\ ~is_recording /\ ~process
    /\ nsess = 1 /\ ndeact = 1
    /\ sessions[1].stage \in {"noaudio", "done"}

\* what the documentation of _has_required_keys and the log messages call
\* letter keys, over the codes of the model
AlphabeticCodes == {KEY_A, KEY_B}

\* the three modifier codes a candidate must report one of
RequiredModifierCodes == {KEY_LEFTMETA, KEY_RIGHTMETA, KEY_LEFTCTRL}

\* the device can be opened, reports a letter key and a required modifier,
\* and its lowered name contains none of the deny-list patterns
Qualifies(device) ==
    /\ device.openable
    /\ device.capabilities.has_ev_key
    /\ device.capabilities.keys \cap AlphabeticCodes # {}
    /\ device.capabilities.keys \cap RequiredModifierCodes # {}
    /\ \A k \in DOMAIN virtual_patterns :
          ~name_contains(device.name, virtual_patterns[k])

\* C17: a device becomes a candidate exactly when it can be opened, reports
\* at least one alphabetic key code and at least one of left-meta, right-meta
\* and left-ctrl, and its name contains no deny-list pattern; and when no
\* device reports a letter key, discovery finds nothing.
C17_CandidateIffQualifies ==
    /\ main_pc # "startup"
       => \A i \in DOMAIN devices :
             is_candidate(devices[i]) <=> Qualifies(devices[i])
    /\ (main_pc # "startup"
          /\ \A i \in DOMAIN devices :
                devices[i].capabilities.keys \cap AlphabeticCodes = {})
       => keyboard_device = <<>>

\* the devices discovery keeps, in the order of list_devices()
Candidates == SelectSeq(devices, is_candidate)

NamedKeyboard(device) == name_contains(device.name, <<"keyboard">>)

\* C18: once discovery has run, if some candidate has "keyboard" in its
\* lowered name the selected device is a candidate with "keyboard" in its
\* name, wherever it stands in the list; if none has, the selected device is
\* the first candidate.
C18_PrefersKeyboardName ==
    main_pc # "startup"
    => IF \E i \in DOMAIN Candidates : NamedKeyboard(Candidates[i])
       THEN /\ keyboard_device # <<>>
            /\ NamedKeyboard(keyboard_device[1])
            /\ \E i \in DOMAIN Candidates : Candidates[i] = keyboard_device[1]
       ELSE IF Candidates # <<>>
       THEN keyboard_device = <<Candidates[1]>>
       ELSE keyboard_device = <<>>

\* a candidate without "keyboard" in its name is listed first, one named
\* "KEYBOARD" second, and the second has been selected
C18_Witness ==
    /\ main_pc = "loop"
    /\ Len(devices) = 2
    /\ is_candidate(devices[1]) /\ ~NamedKeyboard(devices[1])
    /\ is_candidate(devices[2]) /\ devices[2].name = <<"USB", "KEYBOARD">>
    /\ keyboard_device = <<devices[2]>>

\* C19: when the daemon has exited, its status is 1 if discovery finds no
\* qualifying keyboard among the devices, and then no key event has been
\* handled; with a qualifying keyboard the status is 0, whatever ended the
\* daemon.
C19_ExitStatus ==
    main_pc = "exited"
    => IF find_keyboard_device(devices) = <<>>
       THEN /\ exit_code = 1
            /\ keyboard_device = <<>>
            /\ keys_pressed = {} /\ last_down = {} /\ nsess = 0
       ELSE exit_code = 0

\* a step in which the trigger code goes down while no recording is active
TriggerDownWhileIdle ==
    /\ ~is_recording
    /\ keys_pressed' = keys_pressed \cup {get_hotkey_key(config)}

\* a step in which the trigger code goes up while a recording is active
TriggerUpWhileRecording ==
    /\ is_recording
    /\ get_hotkey_key(config) \in keys_pressed
    /\ keys_pressed' = keys_pressed \ {get_hotkey_key(config)}

\* C20: is_recording changes, a session starts or stops, and the handler
\* enters start_recording or stop_recording_and_transcribe only in a step
\* where the trigger goes down while idle or goes up while recording; every
\* step that changes keys_pressed otherwise (a modifier or another key going
\* down or up, the release of the modifier during a recording included)
\* leaves is_recording, the recorder, the sessions and their notifications
\* as they were.
C20_OnlyTriggerStartsAndStops ==
    [][/\ (\/ is_recording' # is_recording
            \/ nsess' # nsess
            \/ ndeact' # ndeact
            \/ (main_pc = "loop" /\ main_pc' \in {"recorder_start", "recorder_stop"}))
           => (TriggerDownWhileIdle \/ TriggerUpWhileRecording)
       /\ (keys_pressed' # keys_pressed
               /\ ~(TriggerDownWhileIdle \/ TriggerUpWhileRecording))
           => UNCHANGED <<is_recording, main_pc, process, captures, audio_file,
                          nsess, ndeact, sessions>>]_vars

\* the modifier has been released during a recording, which goes on
C20_Witness ==
    /\ main_pc = "loop" /\ is_recording /\ process
    /\ nsess = 1 /\ ndeact = 0
    /\ get_hotkey_key(config) \in keys_pressed
    /\ ModifierCodes(config) \cap keys_pressed = {}

\* C21: modifier matching is any-of.  At the event loop with no recording
\* active, a step in which the trigger code goes down while at least one code
\* of the configured modifiers is held starts a recording, however many
\* modifier names the hotkey lists.
C21_AnyModifierSuffices ==
    [][(main_pc = "loop" /\ ~is_recording
            /\ get_hotkey_key(config) \notin keys_pressed
            /\ get_hotkey_key(config) \in keys_pressed'
            /\ ModifierCodes(config) \cap keys_pressed' # {})
        => /\ is_recording'
           /\ nsess' = nsess + 1
           /\ main_pc' = "recorder_start"]_vars

\* the hotkey lists super and ctrl; the recording was started with the right
\* ctrl code as the only modifier code held
C21_Witness ==
    /\ Len(config.modifiers) > 1
    /\ main_pc = "recorder_start" /\ is_recording /\ nsess = 1
    /\ keys_pressed = {KEY_RIGHTCTRL, get_hotkey_key(config)}

\* C22: a call of AudioRecorder.stop() on a started recorder that returns
\* leaves no process handle and no running ffmpeg, whether ffmpeg exited
\* within the wait or was killed, and returns recording.wav exactly when the
\* file exists with a size above zero, else None; the same holds for the
\* handle when cleanup stops a running recorder.
C22_StopClearsHandle ==
    [][/\ (main_pc = "recorder_wait" /\ main_pc' = "loop")
           => /\ ~process'
              /\ captures' = captures - 1
              /\ (sessions'[nsess].handle # NoFile)
                    <=> (audio_file'.exists /\ audio_file'.size > 0)
              /\ sessions'[nsess].handle # NoFile
                    => sessions'[nsess].handle = audio_file'
       /\ (main_pc # "exited" /\ main_pc' = "exited" /\ is_recording /\ process)
           => /\ ~process'
              /\ captures' = captures - 1]_vars

\* stop() has returned None for an empty recording.wav, with no handle left
C22_Witness ==
    /\ main_pc = "loop" /\ ~process /\ captures = 0 /\ ndeact = 1
    /\ audio_file.exists /\ audio_file.size = 0
    /\ sessions[1].handle = NoFile /\ sessions[1].stage = "noaudio"

\* C23: while the daemon runs and a session is between its dispatch and its
\* continuation, recording.wav is still the file the session was dispatched with: no later
\* activation has removed or rewritten it.
C23_InFlightAudioIntact ==
    \A s \in Sessions :
        (main_pc # "exited" /\ sessions[s].stage = "transcribing")
        => audio_file = sessions[s].handle

\* C24: whenever the daemon is between two key events, is_recording is set
\* exactly when the recorder holds a process handle; recorder.start() is
\* entered only with no handle held; and at most one ffmpeg started by the
\* daemon is running.
C24_FlagMatchesHandle ==
    /\ main_pc = "loop" => (is_recording <=> process)
    /\ main_pc = "recorder_start" => ~process
    /\ captures <= 1

\* the second recording is running, after the first was started and stopped
C24_Witness ==
    /\ main_pc = "loop" /\ is_recording /\ process
    /\ nsess = 2 /\ ndeact = 1 /\ captures = 1

\* paster.paste has been called for the session
PasteCalled(s) == sessions[s].stage = "pasting" \/ sessions[s].paste # "none"

\* C25: texts are pasted in the order of their recordings, one paste at a
\* time: while paster.paste is running for a recording, it has not been
\* called for any later recording.
C25_PastesInRecordingOrder ==
    \A a \in Sessions : \A b \in Sessions :
        (a < b /\ sessions[a].stage = "pasting") => ~PasteCalled(b)

\* the session has had its closing notification: show_success or show_error
Terminal(s) ==
    \E i \in DOMAIN sessions[s].ui :
        sessions[s].ui[i].op \in {"show_success", "show_error"}

\* C26: every deactivation leads to a closing notification unless the daemon
\* exits first: once the s-th deactivation has happened, eventually session
\* s has shown show_success or show_error (at once for missing audio, from
\* the continuation otherwise), or the daemon has exited; a session does not
\* stay in the transcribing state.
C26_DeactivationLeadsToNotification ==
    \A s \in Sessions :
        (ndeact >= s) ~> (Terminal(s) \/ main_pc = "exited")

\* a dispatched session has ended with the notification of on_error, after
\* transcribe raised for a missing model
C26_Witness ==
    \E s \in Sessions :
        /\ sessions[s].stage = "done" /\ sessions[s].n_error = 1
        /\ sessions[s].n_complete = 0
        /\ HasError(sessions[s].ui, "Transcription failed")
        /\ main_pc # "exited"

====
